---- MODULE Spec2Model ----
(***************************************************************************)
(* A model of the chops binary serialization primitives:                   *)
(*   byteswap            (include/serialize/byteswap.hpp)                  *)
(*   extract_val, append_val, append_var_int, extract_var_int              *)
(*                       (include/serialize/extract_append.hpp)            *)
(*                                                                         *)
(* A value of a w-bit type is its bit pattern: a function from the bit     *)
(* positions 0 .. w-1 (bit i has weight 2^i) to {0, 1}.  A signed value is *)
(* its two's-complement pattern.  A std::byte is a number in 0 .. 255, an  *)
(* array or buffer of bytes a function from 0 .. n-1 to bytes.             *)
(***************************************************************************)
EXTENDS Integers, Sequences, FiniteSets, TLC

VARIABLES
  native,   \* std::endian::native of the platform the code was built for
  op,       \* the call the driver made last
  typ,      \* the template type argument T of that call
  endian,   \* the template argument BufEndian of that call
  arg,      \* the value (or length) argument of that call
  ret,      \* what that call returned
  buf,      \* the caller's byte buffer
  pos,      \* the caller's write position in buf
  hist,     \* the append calls made so far: endianness, type, value, place, count
  calls,    \* how many calls were made on the current value
  thr,      \* the threads running a call each: the call, its place and locals
  start     \* the buffer as it was when the threads were started

vars == <<native, op, typ, endian, arg, ret, buf, pos, hist, calls, thr, start>>

----------------------------------------------------------------------------
(* Types, bits and bytes *)

Endian == {"little", "big"}

\* sizeof(T) and the kind of T, for the types the templates accept
u8  == [size |-> 1, kind |-> "unsigned"]
i8  == [size |-> 1, kind |-> "signed"]
raw == [size |-> 1, kind |-> "byte"]
u16 == [size |-> 2, kind |-> "unsigned"]
i16 == [size |-> 2, kind |-> "signed"]
u32 == [size |-> 4, kind |-> "unsigned"]
i32 == [size |-> 4, kind |-> "signed"]
u64 == [size |-> 8, kind |-> "unsigned"]
i64 == [size |-> 8, kind |-> "signed"]

integral == {u8, i8, u16, i16, u32, i32, u64, i64}
integral_or_byte == integral \cup {raw}
unsigned_integral == {u16, u32, u64}

Width(T) == 8 * T.size

\* the k-th byte of a value, byte 0 the least significant
ByteOf(v, k) ==
  v[8*k] + 2*v[8*k+1] + 4*v[8*k+2] + 8*v[8*k+3]
  + 16*v[8*k+4] + 32*v[8*k+5] + 64*v[8*k+6] + 128*v[8*k+7]

\* bit j of a byte
BitOf(b, j) == (b \div (2^j)) % 2

\* the value whose k-th byte is bytes[k], byte 0 the least significant
FromBytes(bytes, n) == [i \in 0..(8*n - 1) |-> BitOf(bytes[i \div 8], i % 8)]

\* the value written most significant byte first, as in a hexadecimal literal
Hex(digits) ==
  LET n == Len(digits)
  IN  FromBytes([k \in 0..(n-1) |-> digits[n - k]], n)

Zero(w) == [i \in 0..(w-1) |-> 0]

Negative(T, v) == T.kind = "signed" /\ v[Width(T) - 1] = 1

----------------------------------------------------------------------------
(* byteswap.hpp *)

\* std::bit_cast<std::array<std::byte, sizeof(T)>>(value): the object
\* representation, in the platform's byte order
bit_cast_to_array(value, n) ==
  [k \in 0..(n-1) |-> ByteOf(value, IF native = "little" THEN k ELSE n - 1 - k)]

\* std::bit_cast<T>(value_representation)
bit_cast_to_value(rep, n) ==
  [i \in 0..(8*n - 1) |->
     BitOf(rep[IF native = "little" THEN i \div 8 ELSE n - 1 - (i \div 8)], i % 8)]

\* a std::rotate in the place of the reverse
rotate(rep, n) == [k \in 0..(n-1) |-> rep[(k + 1) % n]]

\* a reverse of begin + 1 .. end - 1
reverse_inner(rep, n) ==
  [k \in 0..(n-1) |-> IF k = 0 \/ k = n - 1 THEN rep[k] ELSE rep[n - 1 - k]]

\* std::ranges::reverse(value_representation)
reverse(rep, n) == [k \in 0..(n-1) |-> rep[n - 1 - k]]

byteswap(T, value) ==
  IF T.size = 1
  THEN value
  ELSE bit_cast_to_value(reverse(bit_cast_to_array(value, T.size), T.size), T.size)

----------------------------------------------------------------------------
(* The values the driver passes *)

ByteSamples == {0, 1, 128, 255}

\* the constants of the repository's tests
TestValues(n) ==
  CASE n = 1 -> {Hex(<<238>>), Hex(<<170>>)}
    [] n = 2 -> {Hex(<<1, 255>>), Hex(<<1, 3>>)}
    [] n = 4 -> {Hex(<<221, 204, 187, 170>>), Hex(<<222, 173, 190, 239>>),
                 Hex(<<4, 3, 2, 1>>)}
    [] n = 8 -> {Hex(<<9, 8, 7, 6, 5, 4, 3, 2>>)}

\* every value with one byte a among bytes b, and the tests' constants
Samples(n) ==
  {FromBytes([j \in 0..(n-1) |-> IF j = k THEN a ELSE b], n) :
      k \in 0..(n-1), a \in ByteSamples, b \in ByteSamples}
  \cup TestValues(n)

NoValue == <<>>

----------------------------------------------------------------------------
(* Driver of byteswap: a value is swapped, and the result swapped again *)

MaxSwaps == 2

InitSwap ==
  /\ native \in Endian
  /\ op = "init"
  /\ typ = u8
  /\ endian = native
  /\ arg = NoValue
  /\ ret = NoValue
  /\ buf = <<>>
  /\ pos = 0
  /\ hist = <<>>
  /\ calls = 0
  /\ thr = <<>>
  /\ start = <<>>

ByteswapCall(T, x) ==
  /\ op = "init"
  /\ op' = "byteswap"
  /\ typ' = T
  /\ arg' = x
  /\ ret' = byteswap(T, x)
  /\ calls' = 1
  /\ UNCHANGED <<native, endian, buf, pos, hist, thr, start>>

ByteswapAgain ==
  /\ op = "byteswap"
  /\ calls < MaxSwaps
  /\ ret' = byteswap(typ, ret)
  /\ calls' = calls + 1
  /\ UNCHANGED <<native, op, typ, endian, arg, buf, pos, hist, thr, start>>

NextSwap ==
  \/ \E T \in integral : \E x \in Samples(T.size) : ByteswapCall(T, x)
  \/ ByteswapAgain

SpecSwap == InitSwap /\ [][NextSwap]_vars

\* C8: byteswap(byteswap(x)) = x, for every integral type and value,
\* negative signed values included
C8_Involution ==
  (op = "byteswap" /\ calls = 2) => ret = arg

C8_Witness ==
  /\ op = "byteswap" /\ calls = 2
  /\ typ.size > 1
  /\ Negative(typ, arg)
  /\ ByteOf(arg, 0) # ByteOf(arg, typ.size - 1)
  /\ ret = arg

\* C9: the k-th byte of byteswap(x) is the (sizeof(T)-1-k)-th byte of x, for
\* signed and unsigned types of 2, 4 and 8 bytes; a 1-byte value is returned
\* unchanged
C9_Reversed ==
  (op = "byteswap" /\ calls = 1) =>
     /\ DOMAIN ret = 0..(Width(typ) - 1)
     /\ \A k \in 0..(typ.size - 1) : ByteOf(ret, k) = ByteOf(arg, typ.size - 1 - k)
     /\ typ.size = 1 => ret = arg
     /\ (typ = u32 /\ arg = Hex(<<221, 204, 187, 170>>))
           => ret = Hex(<<170, 187, 204, 221>>)
     /\ (typ = i16 /\ arg = Hex(<<1, 3>>)) => ret = Hex(<<3, 1>>)

C9_Witness ==
  /\ op = "byteswap" /\ calls = 1
  /\ typ = i64
  /\ arg = Hex(<<9, 8, 7, 6, 5, 4, 3, 2>>)
  /\ ret = Hex(<<2, 3, 4, 5, 6, 7, 8, 9>>)

----------------------------------------------------------------------------
(* extract_append.hpp: extract_val and append_val *)

\* the bytes buf .. buf + sizeof(T) of the buffer b, buf being b + at
read(b, at, n) == [k \in 0..(n-1) |-> b[at + k]]

\* a copy that runs one byte past the value representation
copy_overrun(rep, n, b, at) ==
  [i \in DOMAIN b |->
     IF at <= i /\ i < at + n THEN rep[i - at]
     ELSE IF i = at + n THEN 0 ELSE b[i]]

\* std::ranges::copy(value_representation, buf), buf being b + at
copy(rep, n, b, at) ==
  [i \in DOMAIN b |-> IF at <= i /\ i < at + n THEN rep[i - at] ELSE b[i]]

\* an extract_val that never swaps
extract_val_noswap(BufEndian, T, b, at) ==
  bit_cast_to_value(read(b, at, T.size), T.size)

extract_val(BufEndian, T, b, at) ==
  LET value_representation == read(b, at, T.size)
      tmp_val == bit_cast_to_value(value_representation, T.size)
  IN  IF BufEndian # native /\ T.size # 1
      THEN byteswap(T, tmp_val)
      ELSE tmp_val

\* an append_val that never swaps
append_val_noswap(BufEndian, T, b, at, val) ==
  [buf |-> copy(bit_cast_to_array(val, T.size), T.size, b, at), ret |-> T.size]

\* an append_val that swaps whenever the buffer is big-endian
append_val_swapbig(BufEndian, T, b, at, val) ==
  LET tmp_val == IF BufEndian = "big" /\ T.size # 1 THEN byteswap(T, val) ELSE val
  IN  [buf |-> copy(bit_cast_to_array(tmp_val, T.size), T.size, b, at),
       ret |-> T.size]

\* the buffer after the call, and the count returned
append_val(BufEndian, T, b, at, val) ==
  LET tmp_val == IF BufEndian # native /\ T.size # 1 THEN byteswap(T, val) ELSE val
      value_representation == bit_cast_to_array(tmp_val, T.size)
  IN  [buf |-> copy(value_representation, T.size, b, at),
       ret |-> T.size]

----------------------------------------------------------------------------
(* Driver of append_val and extract_val.  The caller owns a buffer, appends  *)
(* at its write position, advances the position by the count returned, and  *)
(* extracts at the place of an earlier append, with the type appended there. *)

MaxStart == 1
MaxAppends == 3
BufLen == MaxStart + 8 * MaxAppends

FillBytes == {0, 255}

InitFixed ==
  /\ native \in Endian
  /\ op = "init"
  /\ typ = u8
  /\ endian = native
  /\ arg = NoValue
  /\ ret = NoValue
  /\ \E fill \in FillBytes : buf = [i \in 0..(BufLen - 1) |-> fill]
  /\ pos \in 0..MaxStart
  /\ hist = <<>>
  /\ calls = 0
  /\ thr = <<>>
  /\ start = <<>>

AppendVal(BufEndian, T, val) ==
  /\ Len(hist) < MaxAppends
  /\ pos + T.size <= BufLen
  /\ LET r == append_val(BufEndian, T, buf, pos, val)
     IN  /\ buf' = r.buf
         /\ ret' = r.ret
         /\ pos' = pos + r.ret
         /\ hist' = Append(hist, [endian |-> BufEndian, typ |-> T, val |-> val,
                                  at |-> pos, n |-> r.ret, before |-> buf])
  /\ op' = "append_val"
  /\ typ' = T
  /\ endian' = BufEndian
  /\ arg' = val
  /\ calls' = calls + 1
  /\ UNCHANGED <<native, thr, start>>

ExtractVal(BufEndian, i) ==
  /\ i \in 1..Len(hist)
  /\ op # "extract_val"
  /\ op' = "extract_val"
  /\ typ' = hist[i].typ
  /\ endian' = BufEndian
  /\ arg' = i
  /\ ret' = extract_val(BufEndian, hist[i].typ, buf, hist[i].at)
  /\ UNCHANGED <<native, buf, pos, hist, calls, thr, start>>

\* one append of any sample value, then extracts
NextFixed ==
  \/ \E E \in Endian, T \in integral_or_byte : \E v \in Samples(T.size) :
        hist = <<>> /\ AppendVal(E, T, v)
  \/ \E E \in Endian, i \in 1..MaxAppends : ExtractVal(E, i)

SpecFixed == InitFixed /\ [][NextFixed]_vars

\* the append the last extract read back
Appended == hist[arg]

\* C5: extract_val<E, T> after append_val<E> of v returns v, for every type,
\* either buffer endianness, either native endianness and every value
C5_RoundTrip ==
  (op = "extract_val" /\ endian = Appended.endian) => ret = Appended.val

C5_Witness ==
  /\ op = "extract_val" /\ endian = Appended.endian
  /\ endian # native
  /\ typ = i64
  /\ Negative(typ, Appended.val)
  /\ ByteOf(Appended.val, 0) # ByteOf(Appended.val, 7)
  /\ ret = Appended.val

\* C6: appending with one endianness and extracting with the other returns
\* byteswap(v) when sizeof(T) > 1 and v when sizeof(T) = 1
C6_CrossEndian ==
  (op = "extract_val" /\ endian # Appended.endian) =>
     IF typ.size > 1
     THEN /\ ret = byteswap(typ, Appended.val)
          /\ \A k \in 0..(typ.size - 1) :
                ByteOf(ret, k) = ByteOf(Appended.val, typ.size - 1 - k)
     ELSE ret = Appended.val

C6_Witness ==
  /\ op = "extract_val"
  /\ Appended.endian = "big" /\ endian = "little"
  /\ typ = u32
  /\ Appended.val = Hex(<<221, 204, 187, 170>>)
  /\ ret = Hex(<<170, 187, 204, 221>>)

\* the byte a buffer of endianness E holds at offset k of a value v of n bytes
WireByte(E, v, n, k) == IF E = "big" THEN ByteOf(v, n - 1 - k) ELSE ByteOf(v, k)

\* C7: the endianness tag alone fixes the byte order in the buffer: big puts
\* the most significant byte first, little the least significant, whatever
\* the native endianness, and extract_val reads under the same convention
C7_WireOrder ==
  /\ op = "append_val" =>
        \A k \in 0..(typ.size - 1) :
           buf[pos - typ.size + k] = WireByte(endian, arg, typ.size, k)
  /\ op = "extract_val" =>
        \A k \in 0..(typ.size - 1) :
           WireByte(endian, ret, typ.size, k) = buf[Appended.at + k]

C7_Witness ==
  /\ op = "extract_val"
  /\ native = "big"
  /\ endian = "little"
  /\ typ = u32
  /\ read(buf, Appended.at, 4) = [k \in 0..3 |-> <<221, 204, 187, 170>>[k + 1]]
  /\ ret = Hex(<<170, 187, 204, 221>>)

----------------------------------------------------------------------------
(* Driver of a sequence of append_val calls, as in the tests: the values    *)
(* val1 .. val6 of extract_append_test.cpp, appended one after the other    *)
(* from the start of the buffer.                                            *)

SeqValues ==
  { <<u32, Hex(<<221, 204, 187, 170>>)>>,
    <<i8,  Hex(<<238>>)>>,
    <<i16, Hex(<<1, 255>>)>>,
    <<u64, Hex(<<9, 8, 7, 6, 5, 4, 3, 2>>)>>,
    <<i32, Hex(<<222, 173, 190, 239>>)>>,
    <<raw, Hex(<<170>>)>> }

InitSeq == InitFixed /\ pos = 0

NextSeq ==
  \E E \in Endian, tv \in SeqValues : AppendVal(E, tv[1], tv[2])

SpecSeq == InitSeq /\ [][NextSeq]_vars

\* the buffer as the i-th append call left it
After(i) == IF i = Len(hist) THEN buf ELSE hist[i + 1].before

\* C10: append_val returns sizeof(T) and changes only buf[0] .. buf[sizeof(T)-1];
\* after a sequence of calls, each at the position advanced by the counts
\* returned, the buffer holds the encodings one after the other, none
\* overwritten
C10_AppendFrame ==
  /\ op = "append_val" => ret = typ.size
  /\ \A i \in 1..Len(hist) :
        LET h == hist[i]
        IN  /\ h.n = h.typ.size
            /\ h.at = (IF i = 1 THEN 0 ELSE hist[i - 1].at + hist[i - 1].n)
            /\ \A k \in 0..(h.n - 1) :
                  buf[h.at + k] = WireByte(h.endian, h.val, h.n, k)
            /\ \A j \in DOMAIN buf :
                  (j < h.at \/ j >= h.at + h.typ.size) => After(i)[j] = h.before[j]
  /\ pos = (IF hist = <<>> THEN 0 ELSE hist[Len(hist)].at + hist[Len(hist)].n)

\* the test's big-endian buffer DD CC BB AA EE 01 FF, then the fill
C10_Witness ==
  /\ Len(hist) = 3
  /\ pos = 7
  /\ read(buf, 0, 8) = [k \in 0..7 |-> <<221, 204, 187, 170, 238, 1, 255, 255>>[k + 1]]

----------------------------------------------------------------------------
(* extract_append.hpp: append_var_int *)

\* val & 127, as a number
low7(val) ==
  val[0] + 2*val[1] + 4*val[2] + 8*val[3] + 16*val[4] + 32*val[5] + 64*val[6]

\* a loop test of val >= 127
more_from_127(val, w) ==
  (\E i \in 7..(w-1) : val[i] = 1) \/ low7(val) = 127

\* val > 127, the loop's test
more(val, w) == \E i \in 7..(w-1) : val[i] = 1

\* a shift by a whole byte
shr8(val, w) == [i \in 0..(w-1) |-> IF i + 8 < w THEN val[i + 8] ELSE 0]

\* val >>= 7, of an unsigned value
shr7(val, w) == [i \in 0..(w-1) |-> IF i + 7 < w THEN val[i + 7] ELSE 0]

\* static_cast<uint8_t>(val & 127) | 128: seven bits and the next-byte flag
cont_byte(val) == low7(val) + 128

\* static_cast<uint8_t>(val) & 127: the last byte, its flag clear
last_byte(val) == low7(val)

\* the loop and the final store, from output_size bytes written; output is
\* b + at
RECURSIVE append_loop(_, _, _, _, _)
append_loop(w, val, b, at, output_size) ==
  IF more(val, w)
  THEN append_loop(w, shr7(val, w),
                   [b EXCEPT ![at + output_size] = cont_byte(val)],
                   at, output_size + 1)
  ELSE [buf |-> [b EXCEPT ![at + output_size] = last_byte(val)],
        ret |-> output_size + 1]

\* the buffer after the call, and the count returned
append_var_int(T, b, at, val) == append_loop(Width(T), val, b, at, 0)

----------------------------------------------------------------------------
(* extract_append.hpp: extract_var_int *)

\* The operand (input[i] & 127) is promoted to int, so the shift is one of a
\* 32-bit signed int.  A count below 32 gives the product modulo 2^32 (C++20).
\* A count of 32 or more is undefined: the outcomes modelled are those of the
\* shift instructions, the count taken modulo 32 ("wrap") or every bit
\* shifted out ("zero").
ShiftOutcomes == {"wrap", "zero"}

IntBits == 32

shl_by(x, s) ==
  [j \in 0..(IntBits - 1) |-> IF j >= s /\ j - s <= 6 THEN BitOf(x, j - s) ELSE 0]

\* (x << s), x in 0 .. 127, as the bits of an int
shl_int(x, s, ub) ==
  IF s < IntBits THEN shl_by(x, s)
  ELSE IF ub = "wrap" THEN shl_by(x, s % IntBits)
  ELSE Zero(IntBits)

\* ret |= term: the int term is converted to T (sign-extended to a wider T,
\* cut to a narrower one) and or-ed in
or_assign(r, term, w) ==
  [j \in 0..(w-1) |->
     IF r[j] = 1 \/ term[IF j < IntBits THEN j ELSE IntBits - 1] = 1 THEN 1 ELSE 0]

\* a loop that goes on after a byte whose next-byte flag is clear
RECURSIVE extract_loop_noflag(_, _, _, _, _, _, _)
extract_loop_noflag(w, b, at, input_size, i, r, ub) ==
  IF i < input_size
  THEN extract_loop_noflag(w, b, at, input_size, i + 1,
                           or_assign(r, shl_int(b[at + i] % 128, 7 * i, ub), w), ub)
  ELSE r

\* the loop, from index i with r accumulated; input is b + at
RECURSIVE extract_loop(_, _, _, _, _, _, _)
extract_loop(w, b, at, input_size, i, r, ub) ==
  IF i < input_size
  THEN LET r2 == or_assign(r, shl_int(b[at + i] % 128, 7 * i, ub), w)
       IN  IF b[at + i] < 128
           THEN r2
           ELSE extract_loop(w, b, at, input_size, i + 1, r2, ub)
  ELSE r

extract_var_int(T, b, at, input_size, ub) ==
  extract_loop(Width(T), b, at, input_size, 0, Zero(Width(T)), ub)

----------------------------------------------------------------------------
(* Driver of the variable-length codec, as test_round_trip_var_int: a value *)
(* is encoded at the start of a 10-byte buffer and decoded from it; or the  *)
(* buffer is given bytes from elsewhere, and these are decoded.  The codec   *)
(* never reads std::endian::native, which is left at one value here.        *)

TestBufLen == 10

\* the value with bits j .. k-1 set
Run(w, j, k) == [i \in 0..(w-1) |-> IF j <= i /\ i < k THEN 1 ELSE 0]

\* the bit positions next to the 7-bit group, 16-bit and 32-bit boundaries
Marks(w) == {i \in 0..w : i % 7 \in {0, 1, 6} \/ i \in {16, 31, 32} \/ i = w}

\* a number below 2^31 as a value of w bits
FromNat(n, w) == [i \in 0..(w-1) |-> IF i < 31 THEN BitOf(n, i) ELSE 0]

VarSamples(T) ==
  LET w == Width(T)
  IN  {Run(w, j, k) : j \in Marks(w), k \in Marks(w)}
      \cup {FromNat(n, w) : n \in {42, 7, 40001, 51966}}
      \cup (IF T = u64 THEN {Hex(<<9, 8, 7, 6, 5, 4, 3, 2>>)} ELSE {})

\* bytes from elsewhere: k bytes a, a byte b, then bytes c
Inputs ==
  {[i \in 0..(TestBufLen - 1) |-> IF i < k THEN a ELSE IF i = k THEN b ELSE c] :
      k \in 0..(TestBufLen - 1), a \in {128, 254, 255},
      b \in {0, 1, 8, 127, 202, 255}, c \in {0, 255}}

InitVar ==
  /\ native = "little"
  /\ op = "init"
  /\ typ = u8
  /\ endian = native
  /\ arg = NoValue
  /\ ret = NoValue
  /\ \E fill \in FillBytes : buf = [i \in 0..(TestBufLen - 1) |-> fill]
  /\ pos = 0
  /\ hist = <<>>
  /\ calls = 0
  /\ thr = <<>>
  /\ start = <<>>

AppendVarInt(T, val) ==
  /\ op = "init"
  /\ LET r == append_var_int(T, buf, pos, val)
     IN  /\ buf' = r.buf
         /\ ret' = r.ret
         /\ hist' = Append(hist, [endian |-> "little", typ |-> T, val |-> val,
                                  at |-> pos, n |-> r.ret, before |-> buf])
  /\ op' = "append_var_int"
  /\ typ' = T
  /\ arg' = val
  /\ calls' = calls + 1
  /\ UNCHANGED <<native, endian, pos, thr, start>>

Receive(bytes) ==
  /\ op = "init"
  /\ op' = "receive"
  /\ buf' = bytes
  /\ UNCHANGED <<native, typ, endian, arg, ret, pos, hist, calls, thr, start>>

ExtractVarInt(T, input_size, ub) ==
  /\ op \in {"append_var_int", "receive"}
  /\ input_size <= TestBufLen
  /\ op' = "extract_var_int"
  /\ typ' = T
  /\ arg' = input_size
  /\ ret' = extract_var_int(T, buf, pos, input_size, ub)
  /\ UNCHANGED <<native, endian, buf, pos, hist, calls, thr, start>>

NextVar ==
  \/ \E T \in unsigned_integral : \E v \in VarSamples(T) : AppendVarInt(T, v)
  \/ \E bytes \in Inputs : Receive(bytes)
  \/ \E T \in unsigned_integral, n \in 0..TestBufLen, ub \in ShiftOutcomes :
        ExtractVarInt(T, n, ub)

SpecVar == InitVar /\ [][NextVar]_vars

\* the append_var_int call made on the buffer
Encoded == hist[1]

\* C1: extract_var_int<T>(buf, n) returns v, for n = append_var_int<T>(buf, v)
\* and every value v of a 16-bit, 32-bit or 64-bit unsigned type T
C1_VarRoundTrip ==
  (op = "extract_var_int" /\ hist # <<>> /\ typ = Encoded.typ /\ arg = Encoded.n)
     => ret = Encoded.val

\* the number of bits of v up to its highest set bit, 0 for v = 0
BitLength(v, w) ==
  IF \A i \in 0..(w-1) : v[i] = 0 THEN 0
  ELSE 1 + CHOOSE i \in 0..(w-1) : v[i] = 1 /\ \A j \in (i+1)..(w-1) : v[j] = 0

Max(a, b) == IF a >= b THEN a ELSE b

\* the most bytes a value of type T encodes to, as the documentation gives it
MaxEncoded(T) == CASE T = u16 -> 3 [] T = u32 -> 5 [] T = u64 -> 10

\* C2: append_var_int returns ceil(max(1, bit_length(v)) / 7), which is at
\* least 1 (one zero byte for v = 0) and at most 3, 5 and 10 for a 16-bit,
\* 32-bit and 64-bit type, and writes no byte at or past that index
C2_VarLength ==
  hist # <<>> =>
     LET v == Encoded.val
         w == Width(Encoded.typ)
         n == Encoded.n
     IN  /\ n = (Max(1, BitLength(v, w)) + 6) \div 7
         /\ 1 <= n /\ n <= MaxEncoded(Encoded.typ)
         /\ v = Zero(w) => (n = 1 /\ buf[0] = 0)
         /\ \A j \in n..(TestBufLen - 1) : buf[j] = Encoded.before[j]
         /\ op = "append_var_int" => ret = n

C2_Witness ==
  /\ op = "append_var_int"
  /\ typ = u64
  /\ arg = Run(64, 0, 64)
  /\ ret = 10

\* bits 7i .. 7i+6 of v, as a number
Group(v, i, w) ==
  LET bit(j) == IF 7*i + j < w THEN v[7*i + j] ELSE 0
  IN  bit(0) + 2*bit(1) + 4*bit(2) + 8*bit(3) + 16*bit(4) + 32*bit(5) + 64*bit(6)

\* C3: the low 7 bits of buf[i] are bits 7i .. 7i+6 of v; every byte but the
\* last has its high bit set and the last has it clear; 128 encodes as
\* 0x80 0x01 and 0xCAFE as 254 149 3
C3_VarBytes ==
  hist # <<>> =>
     LET v == Encoded.val
         w == Width(Encoded.typ)
         n == Encoded.n
     IN  /\ \A i \in 0..(n - 1) :
               /\ buf[i] % 128 = Group(v, i, w)
               /\ (i < n - 1) => buf[i] >= 128
         /\ buf[n - 1] < 128
         /\ v = FromNat(128, w) => read(buf, 0, 2) = [k \in 0..1 |-> <<128, 1>>[k + 1]]
         /\ v = FromNat(51966, w) =>
               read(buf, 0, 3) = [k \in 0..2 |-> <<254, 149, 3>>[k + 1]]

C3_Witness ==
  /\ op = "append_var_int"
  /\ typ = u32
  /\ arg = FromNat(51966, 32)
  /\ ret = 3
  /\ read(buf, 0, 3) = [k \in 0..2 |-> <<254, 149, 3>>[k + 1]]

\* how many bytes a decode of input_size bytes consumes: up to and including
\* the first byte whose high bit is clear
Consumed(b, at, input_size) ==
  IF \E i \in 0..(input_size - 1) : b[at + i] < 128
  THEN 1 + CHOOSE i \in 0..(input_size - 1) :
              b[at + i] < 128 /\ \A j \in 0..(i - 1) : b[at + j] >= 128
  ELSE input_size

\* the 7-bit groups of the first m bytes, group i at bits 7i .. 7i+6, in w bits
GroupsOf(b, at, m, w) ==
  [j \in 0..(w-1) |-> IF j \div 7 < m THEN BitOf(b[at + (j \div 7)] % 128, j % 7) ELSE 0]

\* C4: extract_var_int stops after the first byte whose high bit is clear or
\* after length bytes, and returns the OR of (input[i] & 127) << 7i over the
\* bytes consumed, whatever the bytes past them
C4_VarDecode ==
  op = "extract_var_int" =>
     ret = GroupsOf(buf, pos, Consumed(buf, pos, arg), Width(typ))

\* the value of the 7-bit groups of the first m bytes, with no width to cut
\* it: 7 bits for each byte a buffer can hold
FullValue(b, at, m) ==
  [j \in 0..(7 * TestBufLen - 1) |->
     IF j \div 7 < m THEN BitOf(b[at + (j \div 7)] % 128, j % 7) ELSE 0]

\* a value taken modulo 2^w
Truncated(full, w) == [j \in 0..(w-1) |-> full[j]]

\* C11: a decode into a type narrower than the encoded value truncates: the
\* result is the unbounded value of the groups consumed, modulo 2^width(D),
\* for D of 16, 32 and 64 bits and inputs of up to 10 bytes
C11_VarTruncates ==
  (op = "extract_var_int" /\ arg <= TestBufLen) =>
     ret = Truncated(FullValue(buf, pos, Consumed(buf, pos, arg)), Width(typ))

\* the buffer b with every byte from index m on replaced by the byte x
PastReplaced(b, m, x) == [i \in DOMAIN b |-> IF i < m THEN b[i] ELSE x]

\* C12: extract_var_int returns a value fixed by the bytes it consumes alone;
\* with a length k below the encoded length of v it returns v mod 2^(7k), and
\* with length 0 it returns 0
C12_VarPartial ==
  op = "extract_var_int" =>
     LET w == Width(typ)
         m == Consumed(buf, pos, arg)
     IN  /\ arg = 0 => ret = Zero(w)
         /\ (hist # <<>> /\ typ = Encoded.typ /\ arg < Encoded.n) =>
               ret = [j \in 0..(w-1) |-> IF j < 7 * arg THEN Encoded.val[j] ELSE 0]
         /\ \A ub \in ShiftOutcomes, x \in FillBytes :
               ret = extract_var_int(typ, PastReplaced(buf, pos + m, x), pos, arg, ub)

----------------------------------------------------------------------------
(* Calls running concurrently on disjoint regions of one buffer.  Thread A   *)
(* and thread B each run an append_val or an append_var_int, thread C an     *)
(* extract_val.  A step of a thread is one access to the buffer: one byte    *)
(* stored by the copy or by the encoding loop, one byte read by the copy of  *)
(* extract_val.  Steps of different threads interleave in any order.         *)

Threads == {"A", "B", "C"}

\* the regions: one buffer of the tests' size for each thread
RegionAt(t) ==
  CASE t = "A" -> 0 [] t = "B" -> TestBufLen [] t = "C" -> 2 * TestBufLen

\* what region C holds: the first bytes of the tests' net_buf_big
RegionC == <<221, 204, 187, 170, 238, 1, 255, 9, 8, 7>>

AppendTasks ==
  { [kind |-> "append_val", endian |-> "big", typ |-> u32,
     val |-> Hex(<<221, 204, 187, 170>>)],
    [kind |-> "append_val", endian |-> "little", typ |-> i16,
     val |-> Hex(<<1, 255>>)],
    [kind |-> "append_var_int", endian |-> "little", typ |-> u32,
     val |-> FromNat(51966, 32)],
    [kind |-> "append_var_int", endian |-> "little", typ |-> u16,
     val |-> FromNat(40001, 16)],
    [kind |-> "append_var_int", endian |-> "little", typ |-> u64,
     val |-> Hex(<<0, 0, 0, 0, 222, 173, 190, 239>>)] }

ExtractTasks ==
  { [kind |-> "extract_val", endian |-> "big", typ |-> u32, val |-> NoValue],
    [kind |-> "extract_val", endian |-> "little", typ |-> i16, val |-> NoValue],
    [kind |-> "extract_val", endian |-> "little", typ |-> u64, val |-> NoValue] }

\* a thread about to make its call
Started(task, t) ==
  [task |-> task, at |-> RegionAt(t), pc |-> "call", k |-> 0, val |-> task.val,
   rep |-> [i \in 0..(task.typ.size - 1) |-> 0], ret |-> NoValue]

\* a store that writes a 16-bit word: the byte, and a zero next to it
store_wide(b, i, x) ==
  [j \in DOMAIN b |-> IF j = i THEN x ELSE IF j = i + 1 THEN 0 ELSE b[j]]

\* one byte stored: an element assigned by the copy, output[output_size] = ...
store(b, i, x) == [b EXCEPT ![i] = x]

InitConc ==
  /\ native \in Endian
  /\ op = "init"
  /\ typ = u8
  /\ endian = native
  /\ arg = NoValue
  /\ ret = NoValue
  /\ \E fill \in FillBytes :
        buf = [i \in 0..(3 * TestBufLen - 1) |->
                 IF i < RegionAt("C") THEN fill ELSE RegionC[i - RegionAt("C") + 1]]
  /\ pos = 0
  /\ hist = <<>>
  /\ calls = 0
  /\ \E a \in AppendTasks, b \in AppendTasks, c \in ExtractTasks :
        thr = [t \in Threads |->
                 Started(IF t = "A" THEN a ELSE IF t = "B" THEN b ELSE c, t)]
  /\ start = buf

\* append_val, up to the copy: tmp_val and its value representation
AppendValBegin(t) ==
  LET me == thr[t]
      T == me.task.typ
      tmp_val == IF me.task.endian # native /\ T.size # 1
                 THEN byteswap(T, me.val) ELSE me.val
  IN  /\ me.task.kind = "append_val"
      /\ me.pc = "call"
      /\ thr' = [thr EXCEPT ![t].pc = "copy",
                            ![t].rep = bit_cast_to_array(tmp_val, T.size)]
      /\ UNCHANGED <<native, op, typ, endian, arg, ret, buf, pos, hist, calls, start>>

\* one element of std::ranges::copy(value_representation, buf)
AppendValCopy(t) ==
  LET me == thr[t]
  IN  /\ me.task.kind = "append_val"
      /\ me.pc = "copy"
      /\ me.k < me.task.typ.size
      /\ buf' = store(buf, me.at + me.k, me.rep[me.k])
      /\ thr' = [thr EXCEPT ![t].k = me.k + 1]
      /\ UNCHANGED <<native, op, typ, endian, arg, ret, pos, hist, calls, start>>

\* return sizeof(T)
AppendValReturn(t) ==
  LET me == thr[t]
  IN  /\ me.task.kind = "append_val"
      /\ me.pc = "copy"
      /\ me.k = me.task.typ.size
      /\ thr' = [thr EXCEPT ![t].pc = "done", ![t].ret = me.task.typ.size]
      /\ UNCHANGED <<native, op, typ, endian, arg, ret, buf, pos, hist, calls, start>>

\* one pass of the loop of append_var_int; k is output_size
AppendVarIntLoop(t) ==
  LET me == thr[t]
      w == Width(me.task.typ)
  IN  /\ me.task.kind = "append_var_int"
      /\ me.pc = "call"
      /\ more(me.val, w)
      /\ buf' = store(buf, me.at + me.k, cont_byte(me.val))
      /\ thr' = [thr EXCEPT ![t].val = shr7(me.val, w), ![t].k = me.k + 1]
      /\ UNCHANGED <<native, op, typ, endian, arg, ret, pos, hist, calls, start>>

\* the last store of append_var_int, and its return
AppendVarIntLast(t) ==
  LET me == thr[t]
      w == Width(me.task.typ)
  IN  /\ me.task.kind = "append_var_int"
      /\ me.pc = "call"
      /\ ~more(me.val, w)
      /\ buf' = store(buf, me.at + me.k, last_byte(me.val))
      /\ thr' = [thr EXCEPT ![t].pc = "done", ![t].k = me.k + 1, ![t].ret = me.k + 1]
      /\ UNCHANGED <<native, op, typ, endian, arg, ret, pos, hist, calls, start>>

\* one element of std::ranges::copy(buf, buf + sizeof(T), ...)
ExtractValCopy(t) ==
  LET me == thr[t]
  IN  /\ me.task.kind = "extract_val"
      /\ me.pc = "call"
      /\ me.k < me.task.typ.size
      /\ thr' = [thr EXCEPT ![t].rep = [me.rep EXCEPT ![me.k] = buf[me.at + me.k]],
                            ![t].k = me.k + 1]
      /\ UNCHANGED <<native, op, typ, endian, arg, ret, buf, pos, hist, calls, start>>

\* the value of the bytes copied, swapped as extract_val swaps it
ExtractValReturn(t) ==
  LET me == thr[t]
      T == me.task.typ
      tmp_val == bit_cast_to_value(me.rep, T.size)
  IN  /\ me.task.kind = "extract_val"
      /\ me.pc = "call"
      /\ me.k = T.size
      /\ thr' = [thr EXCEPT ![t].pc = "done",
                            ![t].ret = IF me.task.endian # native /\ T.size # 1
                                       THEN byteswap(T, tmp_val) ELSE tmp_val]
      /\ UNCHANGED <<native, op, typ, endian, arg, ret, buf, pos, hist, calls, start>>

NextConc ==
  \E t \in Threads :
     \/ AppendValBegin(t)
     \/ AppendValCopy(t)
     \/ AppendValReturn(t)
     \/ AppendVarIntLoop(t)
     \/ AppendVarIntLast(t)
     \/ ExtractValCopy(t)
     \/ ExtractValReturn(t)

SpecConc == InitConc /\ [][NextConc]_vars

\* the call of a task made alone, as one step, on the buffer b
Alone(task, b, at) ==
  IF task.kind = "append_val"
  THEN append_val(task.endian, task.typ, b, at, task.val)
  ELSE append_var_int(task.typ, b, at, task.val)

\* C13: two appends on disjoint regions, their byte writes interleaved in any
\* order, leave the buffer and return the counts of the two run one after the
\* other; an extract on a third region returns what it returns run alone
C13_NoInterference ==
  /\ (thr["A"].pc = "done" /\ thr["B"].pc = "done") =>
        LET first == Alone(thr["A"].task, start, thr["A"].at)
            second == Alone(thr["B"].task, first.buf, thr["B"].at)
        IN  /\ buf = second.buf
            /\ thr["A"].ret = first.ret
            /\ thr["B"].ret = second.ret
  /\ thr["C"].pc = "done" =>
        thr["C"].ret = extract_val(thr["C"].task.endian, thr["C"].task.typ,
                                   start, thr["C"].at)

C13_Witness ==
  /\ \A t \in Threads : thr[t].pc = "done"
  /\ thr["A"].task.kind = "append_var_int" /\ thr["A"].ret = 3
  /\ thr["B"].task.kind = "append_val" /\ thr["B"].ret = 4
  /\ read(buf, 0, 3) = [k \in 0..2 |-> <<254, 149, 3>>[k + 1]]
  /\ read(buf, TestBufLen, 4) = [k \in 0..3 |-> <<221, 204, 187, 170>>[k + 1]]
  /\ thr["C"].ret = Hex(<<221, 204, 187, 170>>)

====
